---- MODULE Spec2Model ----
(***************************************************************************)
(* Execution-graph replay (train/compute/python/tools/eg_replay.py):       *)
(* ExgrReplayManager.  A recorded trace (a tree of nodes) is reduced to a  *)
(* sorted list of qualified nodes, tensor identifiers are resolved to      *)
(* replay slots, buffers are allocated, and the nodes are replayed for     *)
(* numWarmupIters + numIters passes.                                       *)
(***************************************************************************)
EXTENDS Integers, Sequences, FiniteSets, TLC

(***************************************************************************)
(* Bounds of the model.                                                    *)
(***************************************************************************)
\* number of operator nodes below the root in the flat traces
NumOps == 2
\* number of nodes below the root in the nested traces
NumTreeNodes == 3
\* largest numWarmupIters + numIters
MaxPasses == 2
\* number of build_func calls in the build sequences
NumBuilds == 4
\* nodes below the root in the traces of the second traversal
NumSubNodes == 3

(***************************************************************************)
(* Node names.  A name is a sequence of fragments, so that the substring   *)
(* test `x in child.name` is a real containment test.                      *)
(***************************************************************************)
NameAdd == <<"aten::add">>
NameCustom == <<"custom::op">>
NameSgd == <<"fbgemm::split_embedding_codegen_lookup_", "sgd", "_function">>
NameRowwise == <<"fbgemm::split_embedding_codegen_lookup_", "rowwise_adagrad", "_function">>
NameFbgemmBackward == <<"CppNode<SplitLookupFunction_", "sgd", "_Op>">>
NameEmbeddingBag == <<"aten::embedding_bag">>
NamePinMemory == <<"aten::pin_memory">>
NameDataLoader == <<"enumerate(", "DataLoader", ")#_SingleProcessDataLoaderIter.__next__">>
NameSetData == <<"aten::set_", "data">>
NameLabel == <<"## forward ##">>
NameBackward == <<"autograd::engine::evaluate_function: ", "AddBackward0">>

skip_node_names == {"DataLoader", "aten::set_"}

NameContains(name, x) == \E i \in 1..Len(name) : name[i] = x

(***************************************************************************)
(* Declared element types.  The allocator strips them with str.lstrip and  *)
(* str.rstrip, which remove a SET of characters, so a type is spelled out  *)
(* character by character.                                                 *)
(***************************************************************************)
DtFloat == "Tensor(float)"
DtShort == "Tensor(short)"

Chars ==
    (DtFloat :> <<"T","e","n","s","o","r","(","f","l","o","a","t",")">>) @@
    (DtShort :> <<"T","e","n","s","o","r","(","s","h","o","r","t",")">>)

RECURSIVE LStrip(_, _)
LStrip(s, chars) ==
    IF s # <<>> /\ Head(s) \in chars THEN LStrip(Tail(s), chars) ELSE s

RECURSIVE RStrip(_, _)
RStrip(s, chars) ==
    IF s # <<>> /\ s[Len(s)] \in chars THEN RStrip(SubSeq(s, 1, Len(s) - 1), chars) ELSE s

\* data_type.lstrip('Tensor(').rstrip(')')
DtypeKey(data_type) ==
    RStrip(LStrip(Chars[data_type], {"T","e","n","s","o","r","("}), {")"})

TORCH_DTYPES_BYTES ==
    (<<"f","l","o","a","t">> :> 4) @@
    (<<"i","n","t">> :> 4)

TORCH_DTYPES_RNG ==
    (<<"f","l","o","a","t">> :> "torch.float32") @@
    (<<"i","n","t">> :> "torch.int32")

(***************************************************************************)
(* Tensor arguments: (declared type, tensor identifier, shape).            *)
(***************************************************************************)
Tids == {"T1", "T2"}

Arg(dt, id, shape) == [dt |-> dt, id |-> id, shape |-> shape]

a1 == Arg(DtFloat, "T1", <<4>>)
a2 == Arg(DtFloat, "T1", <<8>>)
a3 == Arg(DtFloat, "T2", <<4>>)
a4 == Arg(DtShort, "T2", <<8>>)
a5 == Arg(DtFloat, "T2", <<0>>)


(***************************************************************************)
(* The trace: nodes[n] = [name, type, parent, ins, outs].  Node 1 is the   *)
(* root; ids follow trace order, so a parent's id is below its children's, *)
(* and a node's children are listed by ascending id.                       *)
(***************************************************************************)
Root == 1

NodeRec(name, type, ins, outs) ==
    [name |-> name, type |-> type, ins |-> ins, outs |-> outs]

RootRec == NodeRec(<<"[pytorch|profiler|execution_graph|thread]">>, "LABEL", <<>>, <<>>)

\* an operator with at most one tensor input and one tensor output
OpProfiles ==
    {NodeRec(NameAdd, "OPERATOR", i, o) :
        i \in {<<>>, <<a1>>, <<a2>>, <<a3>>}, o \in {<<a1>>, <<a2>>, <<a3>>}}
    \cup {NodeRec(NameAdd, "OPERATOR", <<a4>>, <<a1>>),
          NodeRec(NameCustom, "OPERATOR", <<a1>>, <<a3>>),
          NodeRec(NameSgd, "OPERATOR", <<a1>>, <<a3>>),
          NodeRec(NameEmbeddingBag, "OPERATOR", <<a2, a3, a1>>, <<a3>>),
          NodeRec(NameEmbeddingBag, "OPERATOR", <<a1, a1, a4>>, <<a1>>),
          NodeRec(NameEmbeddingBag, "OPERATOR", <<a1, a3, a2>>, <<a3>>),
          NodeRec(NameEmbeddingBag, "OPERATOR", <<a2, a3, a5>>, <<a1>>),
          NodeRec(NameFbgemmBackward, "OPERATOR", <<a3>>, <<a1>>),
          NodeRec(NameSetData, "OPERATOR", <<a3>>, <<a1>>)}

TreeProfiles ==
    {NodeRec(NameLabel, "LABEL", <<>>, <<>>),
     NodeRec(NameDataLoader, "OPERATOR", <<a1>>, <<a3>>),
     NodeRec(NameAdd, "OPERATOR", <<a1>>, <<a3>>),
     NodeRec(NameAdd, "OPERATOR", <<a3>>, <<a1>>)}

\* flat traces: every node is a child of the root
FlatTraces ==
    {[nodes |-> [n \in 1..(NumOps + 1) |-> IF n = Root THEN RootRec ELSE prof[n]],
      parent |-> [n \in 1..(NumOps + 1) |-> IF n = Root THEN 0 ELSE Root]] :
        prof \in [2..(NumOps + 1) -> OpProfiles]}

\* nested traces: any tree in which a parent's id is below its children's
TreeTraces ==
    {[nodes |-> [n \in 1..(NumTreeNodes + 1) |-> IF n = Root THEN RootRec ELSE prof[n]],
      parent |-> [n \in 1..(NumTreeNodes + 1) |-> IF n = Root THEN 0 ELSE par[n]]] :
        prof \in [2..(NumTreeNodes + 1) -> TreeProfiles],
        par \in {f \in [2..(NumTreeNodes + 1) -> 1..NumTreeNodes] :
                    \A n \in 2..(NumTreeNodes + 1) : f[n] < n}}

Traces == FlatTraces \cup TreeTraces

\* (numWarmupIters, numIters)
IterArgs == {<<w, MaxPasses - w>> : w \in 0..1}

VARIABLES
    nodes,                  \* self.exgr: id -> node record
    parent,                 \* self.exgr: id -> parent id (0 for the root)
    numWarmupIters,
    numIters,
    pc,                     \* position of benchTime / preprocess_graph
    sorted_nodes,
    top_tensors,
    dependency_permanent,
    funcs,
    fbgemm_backward_ops,
    descended,              \* nodes _dfs_traverse was called on
    original_unique_tensors,
    replay_unique_tensor_num,
    tensors_mapping,
    replay_tensors_shapes,
    tensor_shapes,
    instantiate,
    unchangeable_intermediate_tensors,
    cpu_tensor,
    tensor_registry_permanent,
    tensor_registry,
    iter,                   \* loop variable of benchTime
    pos,                    \* index into sorted_nodes of the next node of the pass
    timed,                  \* number of passes added to total_time
    executed,               \* nodes handed to run_op in the current pass, in order
    assigned,               \* <<node id, identifier, shape, slot>> per add_unique_tensor call
    well_behaved,           \* every run_op so far had a callable returning one tensor per output
    additional_tensors,
    additional_tensors_size,
    walked,                 \* <<node, ancestor>> per upward walk of analyze_subgraph
    fault                   \* why the process ended early ("" while it has not)

vars == <<nodes, parent, numWarmupIters, numIters, pc, sorted_nodes, top_tensors,
          dependency_permanent, funcs, fbgemm_backward_ops, descended,
          original_unique_tensors,
          replay_unique_tensor_num, tensors_mapping, replay_tensors_shapes, tensor_shapes,
          instantiate, unchangeable_intermediate_tensors, cpu_tensor,
          tensor_registry_permanent, tensor_registry, iter, pos, timed, executed,
          assigned, well_behaved, additional_tensors, additional_tensors_size, walked,
          fault>>

traceVars == <<nodes, parent, numWarmupIters, numIters>>
extractVars == <<sorted_nodes, top_tensors, dependency_permanent, funcs, fbgemm_backward_ops,
                 descended>>
analyzeVars == <<original_unique_tensors, replay_unique_tensor_num, tensors_mapping,
                 replay_tensors_shapes, tensor_shapes, instantiate, assigned>>
allocVars == <<unchangeable_intermediate_tensors, cpu_tensor, tensor_registry_permanent>>
subgraphVars == <<additional_tensors, additional_tensors_size, walked>>
benchVars == <<iter, pos, timed, executed, well_behaved>>

EmptyMap == [x \in {} |-> 0]

Init ==
    /\ \E tr \in Traces : nodes = tr.nodes /\ parent = tr.parent
    /\ \E wi \in IterArgs : numWarmupIters = wi[1] /\ numIters = wi[2]
    /\ pc = "extract_subgraph"
    /\ sorted_nodes = <<>>
    /\ top_tensors = EmptyMap
    /\ dependency_permanent = EmptyMap
    /\ funcs = EmptyMap
    /\ fbgemm_backward_ops = <<>>
    /\ descended = {}
    /\ original_unique_tensors = {}
    /\ replay_unique_tensor_num = 0
    /\ tensors_mapping = EmptyMap
    /\ replay_tensors_shapes = EmptyMap
    /\ tensor_shapes = EmptyMap
    /\ instantiate = {}
    /\ unchangeable_intermediate_tensors = {}
    /\ cpu_tensor = {}
    /\ tensor_registry_permanent = EmptyMap
    /\ tensor_registry = EmptyMap
    /\ iter = 0
    /\ pos = 0
    /\ timed = 0
    /\ executed = <<>>
    /\ assigned = {}
    /\ well_behaved = TRUE
    /\ additional_tensors = {}
    /\ additional_tensors_size = 0
    /\ walked = {}
    /\ fault = ""

(***************************************************************************)
(* Node accessors.                                                         *)
(***************************************************************************)
RECURSIVE Ascending(_)
Ascending(S) ==
    IF S = {} THEN <<>>
    ELSE LET m == CHOOSE x \in S : \A y \in S : x <= y
         IN <<m>> \o Ascending(S \ {m})

Children(n) == Ascending({c \in DOMAIN parent : parent[c] = n})

get_input_tensors(n) == nodes[n].ins
get_output_tensors(n) == nodes[n].outs

\* the skip list never consulted
SkipNamed_never(n) == FALSE

\* any(x in child.name for x in self.skip_node_names)
SkipNamed(n) == \E x \in skip_node_names : NameContains(nodes[n].name, x)

is_qualified(n) == nodes[n].type = "OPERATOR"

is_fbgemm_forward(n) ==
    NameContains(nodes[n].name, "fbgemm::split_embedding_codegen_lookup_")

is_fbgemm_backward(n) ==
    NameContains(nodes[n].name, "CppNode<SplitLookupFunction_")

\* names the generic compiled-operator lookup resolves
OpLibrary == {NameAdd, NameEmbeddingBag, NamePinMemory, NameDataLoader, NameSetData}

Func(kind, of) == [kind |-> kind, of |-> of]
NoFunc == Func("None", 0)

build_torchscript_func(n) ==
    IF nodes[n].name \in OpLibrary
    THEN [func |-> Func("torchscript", n), output_count |-> Len(nodes[n].outs)]
    ELSE [func |-> NoFunc, output_count |-> 0]

build_fbgemm_func(n) ==
    [forward |-> Func("fbgemm_forward", n), backward |-> Func("fbgemm_backward", n),
     output_count |-> Len(nodes[n].outs)]

\* build_func popping the oldest entry of the stack instead of the newest
build_func_fifo(n, stack) ==
    IF is_fbgemm_forward(n)
    THEN LET f == build_fbgemm_func(n)
         IN [func |-> f.forward, output_count |-> f.output_count,
             stack |-> Append(stack, f.backward), err |-> FALSE]
    ELSE IF is_fbgemm_backward(n)
    THEN IF stack = <<>>
         THEN [func |-> NoFunc, output_count |-> 0, stack |-> stack, err |-> TRUE]
         ELSE [func |-> Head(stack), output_count |-> Len(nodes[n].outs),
               stack |-> Tail(stack), err |-> FALSE]
    ELSE LET f == build_torchscript_func(n)
         IN [func |-> f.func, output_count |-> f.output_count,
             stack |-> stack, err |-> FALSE]

\* build_func: the callable and output count of a node, the backward stack
\* afterwards, and whether the assertion on the stack failed
build_func(n, stack) ==
    IF is_fbgemm_forward(n)
    THEN LET f == build_fbgemm_func(n)
         IN [func |-> f.forward, output_count |-> f.output_count,
             stack |-> Append(stack, f.backward), err |-> FALSE]
    ELSE IF is_fbgemm_backward(n)
    THEN IF stack = <<>>
         THEN [func |-> NoFunc, output_count |-> 0, stack |-> stack, err |-> TRUE]
         ELSE [func |-> stack[Len(stack)], output_count |-> Len(nodes[n].outs),
               stack |-> SubSeq(stack, 1, Len(stack) - 1), err |-> FALSE]
    ELSE LET f == build_torchscript_func(n)
         IN [func |-> f.func, output_count |-> f.output_count,
             stack |-> stack, err |-> FALSE]

(***************************************************************************)
(* extract_subgraph                                                        *)
(***************************************************************************)
Inc(dep, t) ==
    IF t \in DOMAIN dep THEN [dep EXCEPT ![t] = @ + 1] ELSE (t :> 1) @@ dep

RECURSIVE CountInputs(_, _)
CountInputs(dep, ins) ==
    IF ins = <<>> THEN dep ELSE CountInputs(Inc(dep, Head(ins).id), Tail(ins))

ArgIds(args) == {args[i].id : i \in 1..Len(args)}

\* the dependency count taken over the outputs as well as the inputs
Qualify_counting_outputs(c, X) ==
    LET b == build_func(c, X.stack)
        Y == [X EXCEPT !.sorted = Append(@, c),
                       !.top = (c :> (ArgIds(get_input_tensors(c)) \cup ArgIds(get_output_tensors(c)))) @@ @,
                       !.dep = CountInputs(@, get_input_tensors(c) \o get_output_tensors(c))]
    IN IF b.err
       THEN [Y EXCEPT !.err = TRUE, !.errnode = c]
       ELSE [Y EXCEPT !.stack = b.stack,
                      !.funcs = (c :> [func |-> b.func, output_count |-> b.output_count]) @@ @]

\* a failed build logged and the traversal carried on
Qualify_swallowing_error(c, X) ==
    LET b == build_func(c, X.stack)
        Y == [X EXCEPT !.sorted = Append(@, c),
                       !.top = (c :> (ArgIds(get_input_tensors(c)) \cup ArgIds(get_output_tensors(c)))) @@ @,
                       !.dep = CountInputs(@, get_input_tensors(c))]
    IN [Y EXCEPT !.stack = b.stack,
                 !.funcs = (c :> [func |-> b.func, output_count |-> b.output_count]) @@ @]

\* the body of _dfs_traverse for a qualified child
Qualify(c, X) ==
    LET b == build_func(c, X.stack)
        Y == [X EXCEPT !.sorted = Append(@, c),
                       !.top = (c :> (ArgIds(get_input_tensors(c)) \cup ArgIds(get_output_tensors(c)))) @@ @,
                       !.dep = CountInputs(@, get_input_tensors(c))]
    IN IF b.err
       THEN [Y EXCEPT !.err = TRUE, !.errnode = c]
       ELSE [Y EXCEPT !.stack = b.stack,
                      !.funcs = (c :> [func |-> b.func, output_count |-> b.output_count]) @@ @]

\* a skip-named child not recorded but descended into
RECURSIVE dfs_traverse_descending_skipped(_, _)
dfs_traverse_descending_skipped(kids, X) ==
    IF kids = <<>> \/ X.err THEN X
    ELSE LET c == Head(kids)
         IN IF is_qualified(c) /\ ~SkipNamed(c)
            THEN dfs_traverse_descending_skipped(Tail(kids), Qualify(c, X))
            ELSE dfs_traverse_descending_skipped(Tail(kids),
                     dfs_traverse_descending_skipped(Children(c),
                                                     [X EXCEPT !.visited = @ \cup {c}]))

RECURSIVE dfs_traverse(_, _)
dfs_traverse(kids, X) ==
    IF kids = <<>> \/ X.err THEN X
    ELSE LET c == Head(kids)
         IN IF SkipNamed(c) THEN dfs_traverse(Tail(kids), X)
            ELSE IF is_qualified(c) THEN dfs_traverse(Tail(kids), Qualify(c, X))
            ELSE dfs_traverse(Tail(kids),
                              dfs_traverse(Children(c), [X EXCEPT !.visited = @ \cup {c}]))

RECURSIVE InsertById(_, _)
InsertById(x, s) ==
    IF s = <<>> THEN <<x>>
    ELSE IF x < Head(s) THEN <<x>> \o s
    ELSE <<Head(s)>> \o InsertById(x, Tail(s))

\* the list left in traversal order
SortById_unsorted(s) == s

\* sorted(self.sorted_nodes, key=lambda x: x.id)
RECURSIVE SortById(_)
SortById(s) ==
    IF s = <<>> THEN <<>>
    ELSE InsertById(s[Len(s)], SortById(SubSeq(s, 1, Len(s) - 1)))

Traversal ==
    dfs_traverse(Children(Root),
                 [sorted |-> sorted_nodes, top |-> top_tensors, dep |-> dependency_permanent,
                  funcs |-> funcs, stack |-> fbgemm_backward_ops, visited |-> {Root},
                  err |-> FALSE, errnode |-> 0])

ExtractSubgraph ==
    /\ pc = "extract_subgraph"
    /\ LET X == Traversal
       IN /\ top_tensors' = X.top
          /\ dependency_permanent' = X.dep
          /\ funcs' = X.funcs
          /\ fbgemm_backward_ops' = X.stack
          /\ descended' = X.visited
          /\ IF X.err
             THEN /\ sorted_nodes' = X.sorted
                  /\ pc' = "exit"
                  /\ fault' = "graph_parse"
             ELSE /\ sorted_nodes' = SortById(X.sorted)
                  /\ pc' = "analyze_subgraph"
                  /\ fault' = fault
    /\ UNCHANGED <<traceVars, subgraphVars, analyzeVars, allocVars, tensor_registry, benchVars>>

(***************************************************************************)
(* analyze_subgraph                                                        *)
(***************************************************************************)
\* a node that opens a backward computation, told by its name
is_backward_parent(n) ==
    NameContains(nodes[n].name, "autograd::engine::evaluate_function: ")

\* some proper ancestor opens a backward computation
RECURSIVE has_backward_parent(_)
has_backward_parent(n) ==
    /\ parent[n] # 0
    /\ is_backward_parent(parent[n]) \/ has_backward_parent(parent[n])

\* classified as backward by its own name
is_backward_aten(n) == is_backward_parent(n)

\* lines 146-148: `while node not in self.sorted_nodes: node = node.parent`;
\* 0 stands for the parent of the root, where the walk cannot go on
RECURSIVE Walk(_, _)
Walk(n, sorted) ==
    IF n = 0 THEN 0
    ELSE IF \E i \in 1..Len(sorted) : sorted[i] = n THEN n
    ELSE Walk(parent[n], sorted)

RECURSIVE Product(_)
Product(shape) == IF shape = <<>> THEN 1 ELSE Head(shape) * Product(Tail(shape))

\* lines 149-154 for the outputs of a child whose walk ended at node anc;
\* S = [add, size, walked, err]
RECURSIVE RecordLeaks(_, _, _)
RecordLeaks(S, anc, outs) ==
    IF outs = <<>> \/ S.err # "" THEN S
    ELSE LET o == Head(outs)
         IN IF /\ o.id \notin top_tensors[anc]
               /\ o.id \in DOMAIN dependency_permanent
               /\ o.id \notin S.add
            THEN IF o.shape = <<>>
                 THEN RecordLeaks([S EXCEPT !.add = @ \cup {o.id}], anc, Tail(outs))
                 ELSE IF DtypeKey(o.dt) \in DOMAIN TORCH_DTYPES_BYTES
                 THEN RecordLeaks([S EXCEPT !.add = @ \cup {o.id},
                                            !.size = @ + Product(o.shape)
                                                         * TORCH_DTYPES_BYTES[DtypeKey(o.dt)]],
                                  anc, Tail(outs))
                 ELSE [S EXCEPT !.add = @ \cup {o.id}, !.err = "analyze_subgraph"]
            ELSE RecordLeaks(S, anc, Tail(outs))

\* lines 145-154 for one child
Inspect(S, c) ==
    IF (\A i \in 1..Len(sorted_nodes) : sorted_nodes[i] # c) /\ nodes[c].type = "OPERATOR"
    THEN LET anc == Walk(parent[c], sorted_nodes)
         IN IF anc = 0
            THEN [S EXCEPT !.err = "walk_past_root"]
            ELSE RecordLeaks([S EXCEPT !.walked = @ \cup {<<c, anc>>}], anc,
                             get_output_tensors(c))
    ELSE S

\* the traversal going into the skip-named children as well
RECURSIVE bfs_traverse_visiting_skipped(_, _)
bfs_traverse_visiting_skipped(kids, S) ==
    IF kids = <<>> \/ S.err # "" THEN S
    ELSE LET c == Head(kids)
         IN IF is_backward_aten(c) \/ has_backward_parent(c)
            THEN bfs_traverse_visiting_skipped(Tail(kids), S)
            ELSE bfs_traverse_visiting_skipped(Tail(kids),
                     bfs_traverse_visiting_skipped(Children(c), Inspect(S, c)))

\* _bfs_traverse (lines 137-155)
RECURSIVE bfs_traverse(_, _)
bfs_traverse(kids, S) ==
    IF kids = <<>> \/ S.err # "" THEN S
    ELSE LET c == Head(kids)
         IN IF SkipNamed(c) THEN bfs_traverse(Tail(kids), S)
            ELSE IF is_backward_aten(c) \/ has_backward_parent(c)
            THEN bfs_traverse(Tail(kids), S)
            ELSE bfs_traverse(Tail(kids), bfs_traverse(Children(c), Inspect(S, c)))

\* an exception of the walk or of the size table is not caught: the run ends
AnalyzeSubgraph ==
    /\ pc = "analyze_subgraph"
    /\ LET S == bfs_traverse(Children(Root),
                             [add |-> additional_tensors, size |-> additional_tensors_size,
                              walked |-> walked, err |-> ""])
       IN /\ additional_tensors' = S.add
          /\ additional_tensors_size' = S.size
          /\ walked' = S.walked
          /\ IF S.err # ""
             THEN pc' = "exit" /\ fault' = S.err
             ELSE pc' = "analyze_tensors" /\ fault' = fault
    /\ UNCHANGED <<traceVars, extractVars, analyzeVars, allocVars, tensor_registry, benchVars>>

(***************************************************************************)
(* analyze_tensors                                                         *)
(***************************************************************************)
Put(f, k, v) == IF k \in DOMAIN f THEN [f EXCEPT ![k] = v] ELSE (k :> v) @@ f

\* self.tensor_shapes is a defaultdict(set)
ShapesOf(tshapes, t) == IF t \in DOMAIN tshapes THEN tshapes[t] ELSE {}

\* A = [orig, num, map, rshapes, tshapes, log]; log is the record of which slot
\* each call bound: <<node id, identifier, shape, slot>>
Mint(A, node_id, t_id, shape) ==
    LET k == A.num + 1
    IN [A EXCEPT !.num = k,
                 !.map = Put(@, <<node_id, t_id>>, k),
                 !.rshapes = Put(@, k, shape),
                 !.tshapes = Put(@, t_id, ShapesOf(@, t_id) \cup {<<k, shape>>}),
                 !.log = @ \cup {<<node_id, t_id, shape, k>>}]

\* add_unique_tensor comparing the shape list with the stored tuple: never equal
add_unique_tensor_list_vs_tuple(A, node_id, t_id, shape) ==
    Mint([A EXCEPT !.orig = @ \cup {t_id}], node_id, t_id, shape)

\* add_unique_tensor reusing the slot of the identifier whatever the shape
add_unique_tensor_by_id(A, node_id, t_id, shape) ==
    IF t_id \notin A.orig
    THEN Mint([A EXCEPT !.orig = @ \cup {t_id}], node_id, t_id, shape)
    ELSE LET e == CHOOSE x \in ShapesOf(A.tshapes, t_id) : TRUE
         IN [A EXCEPT !.map = Put(@, <<node_id, t_id>>, e[1]),
                      !.log = @ \cup {<<node_id, t_id, shape, e[1]>>}]

add_unique_tensor(A, node_id, t_id, shape) ==
    IF t_id \notin A.orig
    THEN Mint([A EXCEPT !.orig = @ \cup {t_id}], node_id, t_id, shape)
    ELSE LET seen == {e \in ShapesOf(A.tshapes, t_id) : e[2] = shape}
         IN IF seen # {}
            THEN LET e == CHOOSE x \in seen : TRUE
                 IN [A EXCEPT !.map = Put(@, <<node_id, t_id>>, e[1]),
                              !.log = @ \cup {<<node_id, t_id, shape, e[1]>>}]
            ELSE Mint(A, node_id, t_id, shape)

\* the dependency gate left out
Tracked_always(dep, t) == TRUE

\* `t_id in self.dependency_permanent.keys()`
Tracked(dep, t) == t \in DOMAIN dep

RECURSIVE AddArgs(_, _, _, _)
AddArgs(A, dep, node_id, args) ==
    IF args = <<>> THEN A
    ELSE AddArgs(IF Tracked(dep, Head(args).id)
                 THEN add_unique_tensor(A, node_id, Head(args).id, Head(args).shape)
                 ELSE A,
                 dep, node_id, Tail(args))

\* the first loop visiting a node's outputs before its inputs
RECURSIVE AssignSlots_outputs_first(_, _, _)
AssignSlots_outputs_first(A, dep, order) ==
    IF order = <<>> THEN A
    ELSE LET n == Head(order)
             B == AddArgs(A, dep, n, get_output_tensors(n))
             C == AddArgs(B, dep, n, get_input_tensors(n))
         IN AssignSlots_outputs_first(C, dep, Tail(order))

\* first loop of analyze_tensors (lines 184-191)
RECURSIVE AssignSlots(_, _, _)
AssignSlots(A, dep, order) ==
    IF order = <<>> THEN A
    ELSE LET n == Head(order)
             B == AddArgs(A, dep, n, get_input_tensors(n))
             C == AddArgs(B, dep, n, get_output_tensors(n))
         IN AssignSlots(C, dep, Tail(order))

BoundSlots(map, dep, node_id, args) ==
    {map[<<node_id, args[i].id>>] : i \in {j \in 1..Len(args) : Tracked(dep, args[j].id)}}

\* the second loop recording a node's outputs before it looks at its inputs
RECURSIVE Classify_outputs_first(_, _, _, _)
Classify_outputs_first(I, map, dep, order) ==
    IF order = <<>> THEN I
    ELSE LET n == Head(order)
             ins == BoundSlots(map, dep, n, get_input_tensors(n))
             outs == BoundSlots(map, dep, n, get_output_tensors(n))
         IN Classify_outputs_first([inst |-> I.inst \cup (ins \ (I.output_set \cup outs)),
                                    output_set |-> I.output_set \cup outs],
                                   map, dep, Tail(order))

\* second loop of analyze_tensors (lines 193-202): I = [inst, output_set]
RECURSIVE Classify(_, _, _, _)
Classify(I, map, dep, order) ==
    IF order = <<>> THEN I
    ELSE LET n == Head(order)
             ins == BoundSlots(map, dep, n, get_input_tensors(n))
             outs == BoundSlots(map, dep, n, get_output_tensors(n))
         IN Classify([inst |-> I.inst \cup (ins \ I.output_set),
                      output_set |-> I.output_set \cup outs],
                     map, dep, Tail(order))

Resolver ==
    [orig |-> original_unique_tensors, num |-> replay_unique_tensor_num,
     map |-> tensors_mapping, rshapes |-> replay_tensors_shapes,
     tshapes |-> tensor_shapes, log |-> assigned]

AnalyzeTensors ==
    /\ pc = "analyze_tensors"
    /\ LET A == AssignSlots(Resolver, dependency_permanent, sorted_nodes)
           I == Classify([inst |-> instantiate, output_set |-> {}], A.map,
                         dependency_permanent, sorted_nodes)
       IN /\ original_unique_tensors' = A.orig
          /\ replay_unique_tensor_num' = A.num
          /\ tensors_mapping' = A.map
          /\ replay_tensors_shapes' = A.rshapes
          /\ tensor_shapes' = A.tshapes
          /\ instantiate' = I.inst
          /\ assigned' = A.log
    /\ pc' = "allocate_tensors"
    /\ UNCHANGED <<traceVars, subgraphVars, extractVars, allocVars, tensor_registry, benchVars, fault>>

(***************************************************************************)
(* Buffers.  A registry value is a record; None is the record NoneBuf.     *)
(***************************************************************************)
Buf(kind, shape, dtype, dev, by, at) ==
    [kind |-> kind, shape |-> shape, dtype |-> dtype, dev |-> dev, by |-> by, at |-> at]

NoneBuf == Buf("None", <<>>, "", "", 0, 0)
\* rng(shape).to(dtype)
RngBuf(shape, dtype) == Buf("rng", shape, dtype, "cpu", 0, 0)
\* input_args[idx] of generate_fbgemm_tensors(node)
FbgemmBuf(n, idx, shape) == Buf("fbgemm", shape, "", "cpu", n, idx)
\* the shapes generate_fbgemm_tensors may give its buffers: 0-dim, shorter
\* than every offsets count of the traces, and as long as the longest
GenShapes == {<<>>, <<2>>, <<8>>}
\* the k-th tensor returned by the callable of node n
OutBuf(n, k) == Buf("out", <<>>, "", "cuda", n, k)
\* v.cuda(self.cuda)
Cuda(v) == [v EXCEPT !.dev = "cuda"]
\* the offsets buffer after the embedding_bag workaround (lines 236-241)
Offsets(v) == [v EXCEPT !.kind = "offsets"]

(***************************************************************************)
(* allocate_tensors                                                        *)
(***************************************************************************)
AlwaysEager(n) == nodes[n].name = NameEmbeddingBag \/ nodes[n].name = NameSgd

\* allocation for the always-eager operators only, InstantiateSet ignored
AllocateInput_eager_only(L, n, i) ==
    LET arg == get_input_tensors(n)[i]
        r == tensors_mapping[<<n, arg.id>>]
    IN IF /\ Tracked(dependency_permanent, arg.id)
          /\ r \notin DOMAIN L.perm
          /\ AlwaysEager(n)
       THEN [L EXCEPT !.perm = Put(@, r, FbgemmBuf(n, i, L.gen)), !.unch = @ \cup {r}]
       ELSE L

\* the buffer made with the shape recorded for the slot
AllocateInput_recorded_shape(L, n, i) ==
    LET arg == get_input_tensors(n)[i]
        r == tensors_mapping[<<n, arg.id>>]
        key == DtypeKey(arg.dt)
    IN IF /\ Tracked(dependency_permanent, arg.id)
          /\ r \notin DOMAIN L.perm
          /\ (AlwaysEager(n) \/ r \in instantiate)
       THEN IF is_fbgemm_forward(n)
            THEN [L EXCEPT !.perm = Put(@, r, FbgemmBuf(n, i, L.gen)),
                           !.unch = IF nodes[n].name = NameSgd THEN @ \cup {r} ELSE @]
            ELSE IF key \in DOMAIN TORCH_DTYPES_RNG
            THEN [L EXCEPT !.perm = Put(@, r, RngBuf(replay_tensors_shapes[r],
                                                    TORCH_DTYPES_RNG[key])),
                           !.unch = IF nodes[n].name = NameEmbeddingBag THEN @ \cup {r} ELSE @,
                           !.cpu = IF nodes[n].name = NamePinMemory /\ i = 1 THEN @ \cup {r} ELSE @]
            ELSE [L EXCEPT !.perm = Put(@, r, NoneBuf)]
       ELSE L

\* lines 211-231 for the input at 1-based position i of node n;
\* L = [perm, unch, cpu, err, exc, gen]; gen is the shape of the buffers of
\* generate_fbgemm_tensors in this run
AllocateInput(L, n, i) ==
    LET arg == get_input_tensors(n)[i]
        r == tensors_mapping[<<n, arg.id>>]
        key == DtypeKey(arg.dt)
    IN IF /\ Tracked(dependency_permanent, arg.id)
          /\ r \notin DOMAIN L.perm
          /\ (AlwaysEager(n) \/ r \in instantiate)
       THEN IF is_fbgemm_forward(n)
            THEN [L EXCEPT !.perm = Put(@, r, FbgemmBuf(n, i, L.gen)),
                           !.unch = IF nodes[n].name = NameSgd THEN @ \cup {r} ELSE @]
            ELSE IF key \in DOMAIN TORCH_DTYPES_RNG
            THEN [L EXCEPT !.perm = Put(@, r, RngBuf(arg.shape, TORCH_DTYPES_RNG[key])),
                           !.unch = IF nodes[n].name = NameEmbeddingBag THEN @ \cup {r} ELSE @,
                           !.cpu = IF nodes[n].name = NamePinMemory /\ i = 1 THEN @ \cup {r} ELSE @]
            ELSE [L EXCEPT !.perm = Put(@, r, NoneBuf)]
       ELSE L

RECURSIVE AllocateInputs(_, _, _)
AllocateInputs(L, n, i) ==
    IF i > Len(get_input_tensors(n)) THEN L
    ELSE AllocateInputs(AllocateInput(L, n, i), n, i + 1)

\* the exceptions that leave allocate_tensors, none of them caught
AllocateFaults ==
    {"allocate_tensors: IndexError", "allocate_tensors: ZeroDivisionError",
     "allocate_tensors: TypeError unhashable", "allocate_tensors: KeyError",
     "allocate_tensors: TypeError NoneType"}

\* number of elements tensor[i] can address in the buffer v
Capacity(v) == IF v.shape = <<>> THEN 0 ELSE v.shape[1]

\* lines 236-241: the offsets of aten::embedding_bag are its third input;
\* as_lists: node.inputs holds the identifiers as lists, which line 241,
\* unlike lines 279-288, uses as a dictionary key without tuple(...)
PatchOffsets(L, n, as_lists) ==
    IF nodes[n].name # NameEmbeddingBag THEN L
    ELSE LET ins == get_input_tensors(n)
         IN IF Len(ins) < 3 \/ ins[2].shape = <<>> \/ ins[3].shape = <<>>
            THEN [L EXCEPT !.err = TRUE, !.exc = "allocate_tensors: IndexError"]
            ELSE IF ins[3].shape[1] = 0
            THEN [L EXCEPT !.err = TRUE, !.exc = "allocate_tensors: ZeroDivisionError"]
            ELSE IF as_lists
            THEN [L EXCEPT !.err = TRUE, !.exc = "allocate_tensors: TypeError unhashable"]
            ELSE LET r == tensors_mapping[<<n, ins[3].id>>]
                 IN IF r \notin DOMAIN L.perm
                    THEN [L EXCEPT !.err = TRUE, !.exc = "allocate_tensors: KeyError"]
                    ELSE IF L.perm[r] = NoneBuf
                    THEN [L EXCEPT !.err = TRUE, !.exc = "allocate_tensors: TypeError NoneType"]
                    ELSE IF Capacity(L.perm[r]) >= ins[3].shape[1]
                    THEN [L EXCEPT !.perm[r] = Offsets(@)]
                    ELSE IF Capacity(L.perm[r]) = 0
                    THEN [L EXCEPT !.err = TRUE, !.exc = "allocate_tensors: IndexError"]
                    ELSE [L EXCEPT !.perm[r] = Offsets(@),
                                   !.err = TRUE, !.exc = "allocate_tensors: IndexError"]

RECURSIVE AllocateNodes(_, _, _)
AllocateNodes(L, order, as_lists) ==
    IF order = <<>> \/ L.err THEN L
    ELSE AllocateNodes(PatchOffsets(AllocateInputs(L, Head(order), 1), Head(order), as_lists),
                       Tail(order), as_lists)

AllocateTensors ==
    /\ pc = "allocate_tensors"
    /\ \E as_lists \in BOOLEAN, gen \in GenShapes :
        LET L == AllocateNodes([perm |-> tensor_registry_permanent,
                                unch |-> unchangeable_intermediate_tensors,
                                cpu |-> cpu_tensor, err |-> FALSE, exc |-> "",
                                gen |-> gen],
                               sorted_nodes, as_lists)
        IN /\ tensor_registry_permanent' = L.perm
           /\ unchangeable_intermediate_tensors' = L.unch
           /\ cpu_tensor' = L.cpu
           /\ IF L.err
              THEN pc' = "exit" /\ fault' = L.exc
              ELSE pc' = "reset_registry" /\ fault' = fault
    /\ UNCHANGED <<traceVars, subgraphVars, extractVars, analyzeVars, tensor_registry, benchVars>>

(***************************************************************************)
(* reset_registry                                                          *)
(***************************************************************************)
ResetValue(k, v) ==
    IF v = NoneBuf THEN NoneBuf ELSE IF k \in cpu_tensor THEN v ELSE Cuda(v)

\* the working registry rebuilt without the entries whose buffer is None
reset_registry_dropping_none(perm) ==
    [k \in {x \in DOMAIN perm : perm[x] # NoneBuf} |-> ResetValue(k, perm[k])]

\* line 94: the dict comprehension over tensor_registry_permanent.items()
reset_registry(perm) == [k \in DOMAIN perm |-> ResetValue(k, perm[k])]

ResetRegistry ==
    /\ pc = "reset_registry"
    /\ tensor_registry' = reset_registry(tensor_registry_permanent)
    /\ pc' = "benchTime"
    /\ UNCHANGED <<traceVars, subgraphVars, extractVars, analyzeVars, allocVars, benchVars, fault>>

(***************************************************************************)
(* run_op and the pass loop of benchTime                                   *)
(***************************************************************************)
\* get_inputs: every tensor input is read from the working registry through
\* its binding; a failed lookup is caught there and None is returned
InputSlots(n) ==
    {tensors_mapping[<<n, get_input_tensors(n)[i].id>>] :
        i \in {j \in 1..Len(get_input_tensors(n)) :
                  <<n, get_input_tensors(n)[j].id>> \in DOMAIN tensors_mapping}}

InputsResolve(n) ==
    /\ \A i \in 1..Len(get_input_tensors(n)) :
          <<n, get_input_tensors(n)[i].id>> \in DOMAIN tensors_mapping
    /\ InputSlots(n) \subseteq DOMAIN tensor_registry

\* the store rule without the test on unchangeable_intermediate_tensors
Writable_ignoring_unchangeable(n, t_id) ==
    /\ Tracked(dependency_permanent, t_id)
    /\ tensors_mapping[<<n, t_id>>] \notin instantiate

\* the store rule without the test on InstantiateSet
Writable_ignoring_instantiate(n, t_id) ==
    /\ Tracked(dependency_permanent, t_id)
    /\ tensors_mapping[<<n, t_id>>] \notin unchangeable_intermediate_tensors

\* lines 341-342: may the output bound to identifier t_id at node n be stored
Writable(n, t_id) ==
    /\ Tracked(dependency_permanent, t_id)
    /\ tensors_mapping[<<n, t_id>>] \notin unchangeable_intermediate_tensors
    /\ tensors_mapping[<<n, t_id>>] \notin instantiate

\* lines 340-343: zip(get_output_tensors(node), outputs), k tensors returned
RECURSIVE StoreOutputs(_, _, _, _)
StoreOutputs(reg, n, j, k) ==
    IF j > k \/ j > Len(get_output_tensors(n)) THEN reg
    ELSE LET t_id == get_output_tensors(n)[j].id
         IN StoreOutputs(IF Writable(n, t_id)
                         THEN Put(reg, tensors_mapping[<<n, t_id>>], OutBuf(n, j))
                         ELSE reg,
                         n, j + 1, k)

\* how many tensors a callable that does not raise can return
ReturnCounts(n) == 0..Len(get_output_tensors(n))

\* the missing callable not tested for
NoCallable_never(f) == FALSE

\* line 302: `if not func`
NoCallable(f) == f.func = NoFunc

\* the error printed and the pass carried on with the next node
Abort_logging_only(why) ==
    /\ fault' = why
    /\ pos' = pos + 1
    /\ UNCHANGED <<tensor_registry, pc, well_behaved>>

\* lines 336-338: the exception is printed and the process exits; a failed
\* get_inputs returns None, on which the call at lines 323-328 raises
Abort(why) ==
    /\ pc' = "exit"
    /\ fault' = why
    /\ UNCHANGED <<tensor_registry, pos, well_behaved>>

RunOp ==
    /\ pc = "run_op"
    /\ pos <= Len(sorted_nodes)
    /\ LET n == sorted_nodes[pos]
           f == funcs[n]
       IN /\ executed' = Append(executed, n)
          /\ IF NoCallable(f)
             THEN /\ pos' = pos + 1
                  /\ well_behaved' = FALSE
                  /\ UNCHANGED <<tensor_registry, pc, fault>>
             ELSE IF ~InputsResolve(n)
             THEN Abort("inputs_error")
             ELSE \/ Abort("run_op_exception")
                  \/ \E res \in ReturnCounts(n) :
                       LET k == IF f.output_count = 0 THEN 0 ELSE res
                       IN /\ tensor_registry' = StoreOutputs(tensor_registry, n, 1, k)
                          /\ well_behaved' = (well_behaved /\ k >= Len(get_output_tensors(n)))
                          /\ pos' = pos + 1
                          /\ UNCHANGED <<pc, fault>>
    /\ UNCHANGED <<traceVars, subgraphVars, extractVars, analyzeVars, allocVars, iter, timed>>

BeginPass ==
    /\ pc = "benchTime"
    /\ iter < numWarmupIters + numIters
    /\ pc' = "run_op"
    /\ pos' = 1
    /\ executed' = <<>>
    /\ UNCHANGED <<traceVars, subgraphVars, extractVars, analyzeVars, allocVars, tensor_registry,
                   iter, timed, well_behaved, fault>>

\* every pass added to total_time
Measured_every_pass(i) == TRUE

\* line 405: `if iter >= self.numWarmupIters`
Measured(i) == i >= numWarmupIters

EndPass ==
    /\ pc = "run_op"
    /\ pos > Len(sorted_nodes)
    /\ timed' = IF Measured(iter) THEN timed + 1 ELSE timed
    /\ iter' = iter + 1
    /\ pc' = "benchTime"
    /\ UNCHANGED <<traceVars, subgraphVars, extractVars, analyzeVars, allocVars, tensor_registry,
                   pos, executed, well_behaved, fault>>

Finish ==
    /\ pc = "benchTime"
    /\ iter >= numWarmupIters + numIters
    /\ pc' = "done"
    /\ UNCHANGED <<traceVars, subgraphVars, extractVars, analyzeVars, allocVars, tensor_registry,
                   benchVars, fault>>

Next ==
    \/ ExtractSubgraph
    \/ AnalyzeSubgraph
    \/ AnalyzeTensors
    \/ AllocateTensors
    \/ ResetRegistry
    \/ BeginPass
    \/ RunOp
    \/ EndPass
    \/ Finish

Spec == Init /\ [][Next]_vars

(***************************************************************************)
(* build_func on its own: the calls of lines 123-124 for a sequence of     *)
(* qualified nodes, each an embedding-family forward node, an              *)
(* embedding-family backward node or a generic operator.                   *)
(***************************************************************************)
BuildProfiles ==
    {NodeRec(NameSgd, "OPERATOR", <<a1>>, <<a3>>),
     NodeRec(NameFbgemmBackward, "OPERATOR", <<a3>>, <<a1>>),
     NodeRec(NameAdd, "OPERATOR", <<a1>>, <<a3>>)}

BuildTraces ==
    {[nodes |-> [n \in 1..(NumBuilds + 1) |-> IF n = Root THEN RootRec ELSE prof[n]],
      parent |-> [n \in 1..(NumBuilds + 1) |-> IF n = Root THEN 0 ELSE Root]] :
        prof \in [2..(NumBuilds + 1) -> BuildProfiles]}

BuildInit ==
    /\ \E tr \in BuildTraces : nodes = tr.nodes /\ parent = tr.parent
    /\ numWarmupIters = 0
    /\ numIters = 0
    /\ pc = "build_func"
    /\ sorted_nodes = <<>>
    /\ top_tensors = EmptyMap
    /\ dependency_permanent = EmptyMap
    /\ funcs = EmptyMap
    /\ fbgemm_backward_ops = <<>>
    /\ descended = {}
    /\ original_unique_tensors = {}
    /\ replay_unique_tensor_num = 0
    /\ tensors_mapping = EmptyMap
    /\ replay_tensors_shapes = EmptyMap
    /\ tensor_shapes = EmptyMap
    /\ instantiate = {}
    /\ unchangeable_intermediate_tensors = {}
    /\ cpu_tensor = {}
    /\ tensor_registry_permanent = EmptyMap
    /\ tensor_registry = EmptyMap
    /\ iter = 0
    /\ pos = Root + 1
    /\ timed = 0
    /\ executed = <<>>
    /\ assigned = {}
    /\ well_behaved = TRUE
    /\ additional_tensors = {}
    /\ additional_tensors_size = 0
    /\ walked = {}
    /\ fault = ""

\* lines 123-124 for the node at position pos; the failed assertion of line
\* 251 is caught at line 127 and the process exits
BuildStep ==
    /\ pc = "build_func"
    /\ pos <= NumBuilds + 1
    /\ LET b == build_func(pos, fbgemm_backward_ops)
       IN IF b.err
          THEN /\ pc' = "exit"
               /\ fault' = "graph_parse"
               /\ UNCHANGED <<funcs, fbgemm_backward_ops, pos>>
          ELSE /\ funcs' = (pos :> [func |-> b.func, output_count |-> b.output_count]) @@ funcs
               /\ fbgemm_backward_ops' = b.stack
               /\ pos' = pos + 1
               /\ UNCHANGED <<pc, fault>>
    /\ UNCHANGED <<traceVars, subgraphVars, sorted_nodes, top_tensors, dependency_permanent, descended,
                   analyzeVars, allocVars, tensor_registry, iter, timed, executed,
                   well_behaved>>

BuildNext == BuildStep

BuildSpec == BuildInit /\ [][BuildNext]_vars

(***************************************************************************)
(* The two traversals on nested traces: labels, a skip-named operator, a   *)
(* backward operator, and operators whose outputs are or are not among     *)
(* the identifiers of the nodes above them.                                *)
(***************************************************************************)
SubProfiles ==
    {NodeRec(NameLabel, "LABEL", <<>>, <<>>),
     NodeRec(NameDataLoader, "OPERATOR", <<a1>>, <<a3>>),
     NodeRec(NameBackward, "OPERATOR", <<a1>>, <<a3>>),
     NodeRec(NameAdd, "OPERATOR", <<a1>>, <<a1>>),
     NodeRec(NameAdd, "OPERATOR", <<a1>>, <<a3>>),
     NodeRec(NameAdd, "OPERATOR", <<a3>>, <<a1>>),
     NodeRec(NameAdd, "OPERATOR", <<a1>>, <<a4>>)}

SubTraces ==
    {[nodes |-> [n \in 1..(NumSubNodes + 1) |-> IF n = Root THEN RootRec ELSE prof[n]],
      parent |-> [n \in 1..(NumSubNodes + 1) |-> IF n = Root THEN 0 ELSE par[n]]] :
        prof \in [2..(NumSubNodes + 1) -> SubProfiles],
        par \in {f \in [2..(NumSubNodes + 1) -> 1..NumSubNodes] :
                    \A n \in 2..(NumSubNodes + 1) : f[n] < n}}

SubgraphInit ==
    /\ \E tr \in SubTraces : nodes = tr.nodes /\ parent = tr.parent
    /\ numWarmupIters = 1
    /\ numIters = 1
    /\ pc = "extract_subgraph"
    /\ sorted_nodes = <<>>
    /\ top_tensors = EmptyMap
    /\ dependency_permanent = EmptyMap
    /\ funcs = EmptyMap
    /\ fbgemm_backward_ops = <<>>
    /\ descended = {}
    /\ original_unique_tensors = {}
    /\ replay_unique_tensor_num = 0
    /\ tensors_mapping = EmptyMap
    /\ replay_tensors_shapes = EmptyMap
    /\ tensor_shapes = EmptyMap
    /\ instantiate = {}
    /\ unchangeable_intermediate_tensors = {}
    /\ cpu_tensor = {}
    /\ tensor_registry_permanent = EmptyMap
    /\ tensor_registry = EmptyMap
    /\ iter = 0
    /\ pos = 0
    /\ timed = 0
    /\ executed = <<>>
    /\ assigned = {}
    /\ well_behaved = TRUE
    /\ additional_tensors = {}
    /\ additional_tensors_size = 0
    /\ walked = {}
    /\ fault = ""

SubgraphNext ==
    \/ ExtractSubgraph
    \/ AnalyzeSubgraph

SubgraphSpec == SubgraphInit /\ [][SubgraphNext]_vars

(***************************************************************************)
(* Vocabulary of the properties.                                           *)
(***************************************************************************)
\* analyze_tensors has run
Analysed ==
    \/ pc \in {"allocate_tensors", "reset_registry", "benchTime", "run_op", "done"}
    \/ pc = "exit" /\ fault \in AllocateFaults \cup {"inputs_error", "run_op_exception"}

\* analyze_tensors has just returned; no later step assigns the resolver's
\* variables (slots, shapes, bindings, InstantiateSet), so what holds of them
\* here holds for the rest of the run
JustAnalysed == pc = "allocate_tensors"

\* extract_subgraph has returned
Extracted ==
    \/ pc \in {"analyze_subgraph", "analyze_tensors"}
    \/ pc = "exit" /\ fault \in {"analyze_subgraph", "walk_past_root"}
    \/ Analysed

Ranks == 1..Len(sorted_nodes)
Slots == 1..replay_unique_tensor_num
Range(seq) == {seq[i] : i \in 1..Len(seq)}
NonZeroCount(t) == t \in DOMAIN dependency_permanent /\ dependency_permanent[t] > 0

\* the slots recorded for the pair (t, shape)
SlotsOfPair(t, shape) == {e[1] : e \in {x \in ShapesOf(tensor_shapes, t) : x[2] = shape}}

\* <<identifier, slot, shape>> for every entry of self.tensor_shapes
SlotEntries ==
    UNION {{<<t, e[1], e[2]>> : e \in tensor_shapes[t]} : t \in DOMAIN tensor_shapes}

\* the (identifier, shape) pairs the slot s stands for
PairsOfSlot(s) == {<<x[1], x[3]>> : x \in {y \in SlotEntries : y[2] = s}}

Occurs(args, t, shape) == \E i \in 1..Len(args) : args[i].id = t /\ args[i].shape = shape

\* the traversal order of the trace, before sorting
DfsOrder ==
    dfs_traverse(Children(Root),
                 [sorted |-> <<>>, top |-> EmptyMap, dep |-> EmptyMap, funcs |-> EmptyMap,
                  stack |-> <<>>, visited |-> {Root}, err |-> FALSE, errnode |-> 0]).sorted

(***************************************************************************)
(* C1.  After analyze_tensors, every pair (identifier, shape) of a tracked *)
(* identifier that occurs as an input or output of a qualified node has    *)
(* exactly one slot; every occurrence of the pair, at whatever node, was   *)
(* bound to that slot; and running the assignment loop again over the same *)
(* node sequence leaves slots, shapes and bindings as they are.            *)
(***************************************************************************)
C1_OnePairOneSlot ==
    JustAnalysed =>
        /\ \A n \in Range(sorted_nodes) :
             \A args \in {get_input_tensors(n), get_output_tensors(n)} :
               \A i \in 1..Len(args) :
                 NonZeroCount(args[i].id) =>
                    /\ Cardinality(SlotsOfPair(args[i].id, args[i].shape)) = 1
                    /\ \E x \in assigned :
                          /\ x[1] = n /\ x[2] = args[i].id /\ x[3] = args[i].shape
                          /\ x[4] \in SlotsOfPair(args[i].id, args[i].shape)
        /\ \A x, y \in assigned : (x[2] = y[2] /\ x[3] = y[3]) => x[4] = y[4]
        /\ AssignSlots(Resolver, dependency_permanent, sorted_nodes) = Resolver

\* analysis of a trace in which one pair occurs at two nodes and one
\* identifier occurs with two shapes
C1_Witness ==
    /\ JustAnalysed
    /\ \E x, y \in assigned : x[1] # y[1] /\ x[2] = y[2] /\ x[3] = y[3]
    /\ \E x, y \in assigned : x[2] = y[2] /\ x[3] # y[3] /\ x[4] # y[4]

(***************************************************************************)
(* C2.  Scan positions: the inputs of the node of rank i are at 2i, its    *)
(* outputs at 2i + 1.                                                      *)
(***************************************************************************)
FirstBefore(inPos, outPos) ==
    /\ inPos # {}
    /\ \A o \in outPos : \E p \in inPos : p < o

\* where the pair (t, shape) occurs as an input, as an output
PairInPos(t, shape) ==
    {2 * i : i \in {j \in Ranks : Occurs(get_input_tensors(sorted_nodes[j]), t, shape)}}
PairOutPos(t, shape) ==
    {2 * i + 1 : i \in {j \in Ranks : Occurs(get_output_tensors(sorted_nodes[j]), t, shape)}}

\* where the slot s is what an input identifier, an output identifier is bound to
BoundAt(n, args, s) ==
    \E i \in 1..Len(args) :
        /\ NonZeroCount(args[i].id)
        /\ <<n, args[i].id>> \in DOMAIN tensors_mapping
        /\ tensors_mapping[<<n, args[i].id>>] = s
SlotInPos(s) ==
    {2 * i : i \in {j \in Ranks : BoundAt(sorted_nodes[j], get_input_tensors(sorted_nodes[j]), s)}}
SlotOutPos(s) ==
    {2 * i + 1 : i \in {j \in Ranks : BoundAt(sorted_nodes[j], get_output_tensors(sorted_nodes[j]), s)}}

\* C2 as claimed: a slot is in InstantiateSet iff the (identifier, shape) pair
\* it stands for first appears as an input before it first appears as an output
C2_AsClaimed ==
    JustAnalysed =>
        \A s \in Slots :
            s \in instantiate <=>
                \E q \in PairsOfSlot(s) : FirstBefore(PairInPos(q[1], q[2]), PairOutPos(q[1], q[2]))

\* C2 amended: a slot is in InstantiateSet iff, in ascending node-id order with
\* a node's inputs before its outputs, it first appears as the slot an input
\* identifier is bound to (tensors_mapping at that node) before it first
\* appears as the slot an output identifier is bound to
C2_InstantiateIffBoundInputFirst ==
    JustAnalysed =>
        /\ instantiate \subseteq Slots
        /\ \A s \in Slots : s \in instantiate <=> FirstBefore(SlotInPos(s), SlotOutPos(s))

\* a slot consumed and produced by the same node is in InstantiateSet, and a
\* slot produced by one node and consumed by a later one is not
C2_Witness ==
    /\ JustAnalysed
    /\ \E s \in instantiate : SlotOutPos(s) # {}
    /\ \E s \in Slots \ instantiate : SlotInPos(s) # {} /\ SlotOutPos(s) # {}

(***************************************************************************)
(* C3.  Scenario 1: the qualified nodes are A < B; A has no tensor input   *)
(* and produces T1 of shape [4]; B consumes T1 [4] and produces T2 [4].    *)
(***************************************************************************)
IdShapes(args) == [i \in 1..Len(args) |-> <<args[i].id, args[i].shape>>]

Scenario1(A, B) ==
    /\ Range(sorted_nodes) = {A, B}
    /\ A < B
    /\ IdShapes(get_input_tensors(A)) = <<>>
    /\ IdShapes(get_output_tensors(A)) = << <<"T1", <<4>>>> >>
    /\ IdShapes(get_input_tensors(B)) = << <<"T1", <<4>>>> >>
    /\ IdShapes(get_output_tensors(B)) = << <<"T2", <<4>>>> >>

\* C3 as claimed: preprocessing of scenario 1 yields exactly 2 replay slots,
\* an empty InstantiateSet and the execution order A then B
C3_AsClaimed ==
    (Analysed /\ Len(sorted_nodes) = 2) =>
        \A A, B \in Range(sorted_nodes) :
            Scenario1(A, B) =>
                /\ replay_unique_tensor_num = 2
                /\ instantiate = {}
                /\ sorted_nodes = <<A, B>>

\* C3 amended: preprocessing of scenario 1 yields exactly 1 replay slot, the
\* one of (T1, [4]) (T2 is an input of no qualified node and gets none), an
\* empty InstantiateSet and the execution order A then B
C3_ScenarioOneSlot ==
    (Analysed /\ Len(sorted_nodes) = 2) =>
        \A A, B \in Range(sorted_nodes) :
            Scenario1(A, B) =>
                /\ replay_unique_tensor_num = 1
                /\ SlotsOfPair("T1", <<4>>) = {1}
                /\ SlotsOfPair("T2", <<4>>) = {}
                /\ instantiate = {}
                /\ sorted_nodes = <<A, B>>

\* scenario 1 after preprocessing
C3_Witness ==
    /\ pc = "benchTime"
    /\ \E A, B \in DOMAIN nodes : Scenario1(A, B)

(***************************************************************************)
(* C4.  During and after replay the working-registry entry of every slot   *)
(* of UnchangeableSet is the buffer bound at allocation (as reset_registry *)
(* placed it), whatever the nodes that list the slot among their outputs   *)
(* returned, in every pass.                                                *)
(***************************************************************************)
Replaying ==
    \/ pc \in {"benchTime", "run_op", "done"}
    \/ pc = "exit" /\ fault \in {"inputs_error", "run_op_exception"}

C4_UnchangeableNeverWritten ==
    Replaying =>
        \A s \in unchangeable_intermediate_tensors :
            /\ s \in DOMAIN tensor_registry_permanent
            /\ s \in DOMAIN tensor_registry
            /\ tensor_registry[s] = ResetValue(s, tensor_registry_permanent[s])
            /\ tensor_registry[s].kind # "out"

\* all passes done, every callable returned all its outputs, and a node lists
\* among its outputs a slot that is unchangeable and not in InstantiateSet
C4_Witness ==
    /\ pc = "done"
    /\ iter >= 2
    /\ well_behaved
    /\ \E s \in unchangeable_intermediate_tensors \ instantiate : SlotOutPos(s) # {}

(***************************************************************************)
(* C5.  An identifier with zero dependency count has no slot, no binding   *)
(* and no shape record, and every key of the permanent and of the working  *)
(* registry is a slot that stands for an identifier with nonzero count.    *)
(***************************************************************************)
C5_ZeroCountNeverBound ==
    /\ \A t \in Tids :
          ~NonZeroCount(t) =>
             /\ t \notin original_unique_tensors
             /\ ShapesOf(tensor_shapes, t) = {}
             /\ \A k \in DOMAIN tensors_mapping : k[2] # t
             /\ \A x \in assigned : x[2] # t
    /\ \A s \in DOMAIN tensor_registry_permanent \cup DOMAIN tensor_registry :
          /\ s \in Slots
          /\ PairsOfSlot(s) # {}
          /\ \A q \in PairsOfSlot(s) : NonZeroCount(q[1])

\* a full run in which a qualified node with a callable that returned all its
\* outputs lists an identifier of zero dependency count as output, while
\* buffers of other identifiers were bound
C5_Witness ==
    /\ pc = "done"
    /\ well_behaved
    /\ DOMAIN tensor_registry # {}
    /\ \E n \in Range(sorted_nodes) :
          \E i \in 1..Len(get_output_tensors(n)) : ~NonZeroCount(get_output_tensors(n)[i].id)

(***************************************************************************)
(* C6.                                                                     *)
(***************************************************************************)
\* a qualified node produces t with shape s1 and a later one t with shape s2
ProducedTwice(t, s1, s2) ==
    \E i, j \in Ranks :
        /\ i < j
        /\ Occurs(get_output_tensors(sorted_nodes[i]), t, s1)
        /\ Occurs(get_output_tensors(sorted_nodes[j]), t, s2)

ShapesInTrace ==
    UNION {{a.shape : a \in Range(nodes[n].ins) \cup Range(nodes[n].outs)} : n \in DOMAIN nodes}

TwoDistinctSlots(t, s1, s2) ==
    /\ Cardinality(SlotsOfPair(t, s1)) = 1
    /\ Cardinality(SlotsOfPair(t, s2)) = 1
    /\ SlotsOfPair(t, s1) \cap SlotsOfPair(t, s2) = {}

\* every slot has exactly one recorded shape: replay_tensors_shapes records it
\* and tensor_shapes lists the slot once, with that shape
OneShapePerSlot ==
    \A s \in Slots :
        /\ s \in DOMAIN replay_tensors_shapes
        /\ Cardinality(PairsOfSlot(s)) = 1
        /\ \A q \in PairsOfSlot(s) : q[2] = replay_tensors_shapes[s]

\* C6 as claimed: if a qualified node produces T with shape s1 and a later one
\* produces T with a different shape s2, (T, s2) has a slot distinct from the
\* slot of (T, s1); every slot has exactly one recorded shape
C6_AsClaimed ==
    JustAnalysed =>
        /\ \A t \in Tids : \A s1, s2 \in ShapesInTrace :
              (s1 # s2 /\ ProducedTwice(t, s1, s2)) => TwoDistinctSlots(t, s1, s2)
        /\ OneShapePerSlot

\* C6 amended: the same, for an identifier T with nonzero dependency count
\* (an identifier that is an input of no qualified node gets no slot at all)
C6_SecondShapeSecondSlot ==
    JustAnalysed =>
        /\ \A t \in Tids : \A s1, s2 \in ShapesInTrace :
              (NonZeroCount(t) /\ s1 # s2 /\ ProducedTwice(t, s1, s2))
                  => TwoDistinctSlots(t, s1, s2)
        /\ OneShapePerSlot

\* scenario 2 with a consumer of T1
C6_Witness ==
    /\ JustAnalysed
    /\ NonZeroCount("T1")
    /\ ProducedTwice("T1", <<4>>, <<8>>)

(***************************************************************************)
(* C7.  After extract_subgraph the qualified list holds the traversed      *)
(* nodes by strictly ascending id; inside a pass the nodes handed to       *)
(* run_op so far are the first pos - 1 nodes of the list, in order, and at *)
(* the end of every pass they are the whole list, each node once.          *)
(***************************************************************************)
C7_SortedAndReplayedInOrder ==
    /\ Extracted => \A i, j \in Ranks : i < j => sorted_nodes[i] < sorted_nodes[j]
    /\ pc = "analyze_tensors" =>
          /\ Range(sorted_nodes) = Range(DfsOrder)
          /\ Len(sorted_nodes) = Len(DfsOrder)
    /\ pc = "run_op" => executed = SubSeq(sorted_nodes, 1, pos - 1)
    /\ (pc \in {"benchTime", "done"} /\ iter >= 1) => executed = sorted_nodes

\* two passes over a list that the traversal did not produce in id order
C7_Witness ==
    /\ pc = "benchTime"
    /\ iter >= 2
    /\ Len(sorted_nodes) >= 2
    /\ DfsOrder # sorted_nodes
    /\ executed = sorted_nodes

(***************************************************************************)
(* C8.  No node whose name contains a skip-list string is in the qualified *)
(* list; the dependency counts are the input occurrences at the other      *)
(* qualified nodes; no binding, slot or buffer comes from such a node.     *)
(***************************************************************************)
HasSkipName(n) ==
    \E i \in 1..Len(nodes[n].name) : nodes[n].name[i] \in {"DataLoader", "aten::set_"}

InputOccurrences(t) ==
    UNION {{<<n, i>> : i \in {j \in 1..Len(nodes[n].ins) : nodes[n].ins[j].id = t}} :
              n \in {m \in Range(sorted_nodes) : ~HasSkipName(m)}}

\* the traversal reaches n: its proper ancestors are neither skipped nor qualified
RECURSIVE Reached(_)
Reached(n) ==
    \/ parent[n] = Root
    \/ /\ parent[n] # 0
       /\ ~HasSkipName(parent[n])
       /\ nodes[parent[n]].type # "OPERATOR"
       /\ Reached(parent[n])

C8_SkipListedNeverQualified ==
    /\ Extracted =>
          /\ \A n \in Range(sorted_nodes) \cup DOMAIN funcs \cup DOMAIN top_tensors :
                ~HasSkipName(n)
          /\ \A k \in DOMAIN tensors_mapping : ~HasSkipName(k[1])
          /\ \A x \in assigned : ~HasSkipName(x[1])
          /\ \A s \in Slots \cup DOMAIN tensor_registry_permanent \cup DOMAIN tensor_registry :
                \E x \in assigned : x[4] = s
    /\ pc = "analyze_tensors" =>
          \A t \in Tids :
              IF InputOccurrences(t) = {} THEN t \notin DOMAIN dependency_permanent
              ELSE /\ t \in DOMAIN dependency_permanent
                   /\ dependency_permanent[t] = Cardinality(InputOccurrences(t))

\* a full run on a trace in which the traversal meets an operator node with
\* tensor inputs and outputs whose name is on the skip list
C8_Witness ==
    /\ pc = "done"
    /\ sorted_nodes # <<>>
    /\ \E n \in DOMAIN nodes \ {Root} :
          /\ HasSkipName(n)
          /\ Reached(n)
          /\ nodes[n].type = "OPERATOR"
          /\ nodes[n].ins # <<>>
          /\ nodes[n].outs # <<>>

(***************************************************************************)
(* C9.                                                                     *)
(***************************************************************************)
Touches(n) == get_input_tensors(n) \o get_output_tensors(n)

\* the shape of the last occurrence of t at n, inputs before outputs
LastShape(n, t) ==
    LET all == Touches(n)
        last == CHOOSE i \in 1..Len(all) :
                    all[i].id = t /\ \A j \in (i + 1)..Len(all) : all[j].id # t
    IN all[last].shape

\* C9 as claimed: for every qualified node n and every occurrence of a tracked
\* identifier t at n, the binding (n.id, t) is the slot whose recorded shape is
\* the shape of that occurrence
C9_AsClaimed ==
    JustAnalysed =>
        \A n \in Range(sorted_nodes) : \A i \in 1..Len(Touches(n)) :
            NonZeroCount(Touches(n)[i].id) =>
                /\ <<n, Touches(n)[i].id>> \in DOMAIN tensors_mapping
                /\ replay_tensors_shapes[tensors_mapping[<<n, Touches(n)[i].id>>]]
                       = Touches(n)[i].shape

\* C9 amended: for every qualified node n and every tracked identifier t that n
\* touches, the binding (n.id, t) is the slot of the pair (t, shape of the last
\* occurrence of t at n, inputs before outputs), and that is the slot's recorded
\* shape; it is the shape of every occurrence when t occurs at n with one shape
C9_BindingIsSlotOfLastShape ==
    JustAnalysed =>
        \A n \in Range(sorted_nodes) : \A i \in 1..Len(Touches(n)) :
            LET t == Touches(n)[i].id
            IN NonZeroCount(t) =>
                /\ <<n, t>> \in DOMAIN tensors_mapping
                /\ tensors_mapping[<<n, t>>] \in SlotsOfPair(t, LastShape(n, t))
                /\ replay_tensors_shapes[tensors_mapping[<<n, t>>]] = LastShape(n, t)

\* a qualified node lists a tracked identifier as input with one shape and as
\* output with another, and another node binds the same identifier
C9_Witness ==
    /\ JustAnalysed
    /\ \E n \in Range(sorted_nodes) :
          \E i \in 1..Len(get_input_tensors(n)), j \in 1..Len(get_output_tensors(n)) :
             /\ get_input_tensors(n)[i].id = get_output_tensors(n)[j].id
             /\ get_input_tensors(n)[i].shape # get_output_tensors(n)[j].shape
             /\ \E m \in Range(sorted_nodes) :
                   /\ m # n
                   /\ <<m, get_input_tensors(n)[i].id>> \in DOMAIN tensors_mapping
                   /\ tensors_mapping[<<m, get_input_tensors(n)[i].id>>]
                          # tensors_mapping[<<n, get_input_tensors(n)[i].id>>]

(***************************************************************************)
(* C10.  Whenever run_op is about to resolve the inputs of a node that has *)
(* a callable, and every run_op before it (in this and in earlier passes)  *)
(* had a callable that returned one tensor per recorded output, every      *)
(* input binding of the node exists and its slot has an entry in the       *)
(* working registry; get_inputs fails only after some node misbehaved.     *)
(***************************************************************************)
C10_InputsAlreadyInRegistry ==
    /\ (pc = "run_op" /\ pos <= Len(sorted_nodes) /\ well_behaved
            /\ funcs[sorted_nodes[pos]].func # NoFunc)
          => \A i \in 1..Len(get_input_tensors(sorted_nodes[pos])) :
                LET key == <<sorted_nodes[pos], get_input_tensors(sorted_nodes[pos])[i].id>>
                IN /\ key \in DOMAIN tensors_mapping
                   /\ tensors_mapping[key] \in DOMAIN tensor_registry
    /\ fault = "inputs_error" => ~well_behaved

\* in a later pass, a node with a callable is about to read one slot written by
\* an earlier node's output and the trace also has a pre-populated slot
C10_Witness ==
    /\ pc = "run_op"
    /\ iter >= 1
    /\ pos <= Len(sorted_nodes)
    /\ well_behaved
    /\ funcs[sorted_nodes[pos]].func # NoFunc
    /\ \E s \in InputSlots(sorted_nodes[pos]) :
          s \in DOMAIN tensor_registry /\ tensor_registry[s].kind = "out"
    /\ instantiate # {}

(***************************************************************************)
(* C11.  When preprocessing has returned and no pass has started, every    *)
(* slot of InstantiateSet is a key of the permanent and of the working     *)
(* registry; the working entry is the copy reset_registry made of the      *)
(* permanent one; the entry is a buffer, or None, and None only when some  *)
(* input bound to the slot declares a type that has no generator.          *)
(***************************************************************************)
BeforeFirstPass == pc = "benchTime" /\ iter = 0

NoGenerator(n, s) ==
    \E i \in 1..Len(get_input_tensors(n)) :
        /\ <<n, get_input_tensors(n)[i].id>> \in DOMAIN tensors_mapping
        /\ tensors_mapping[<<n, get_input_tensors(n)[i].id>>] = s
        /\ DtypeKey(get_input_tensors(n)[i].dt) \notin DOMAIN TORCH_DTYPES_RNG

C11_InstantiateSlotsPrePopulated ==
    BeforeFirstPass =>
        \A s \in instantiate :
            /\ s \in DOMAIN tensor_registry_permanent
            /\ s \in DOMAIN tensor_registry
            /\ tensor_registry[s] = ResetValue(s, tensor_registry_permanent[s])
            /\ tensor_registry_permanent[s].kind \in {"rng", "fbgemm", "offsets", "None"}
            /\ tensor_registry_permanent[s] = NoneBuf =>
                  \E n \in Range(sorted_nodes) : NoGenerator(n, s)

\* preprocessing returned with one slot of InstantiateSet bound to a buffer
\* and another bound to None
C11_Witness ==
    /\ BeforeFirstPass
    /\ \E s, u \in instantiate :
          /\ s \in DOMAIN tensor_registry /\ u \in DOMAIN tensor_registry
          /\ tensor_registry[s] = NoneBuf
          /\ tensor_registry[u].kind = "rng"

(***************************************************************************)
(* C12.  A run_op call keeps every key of the working registry and changes *)
(* or adds an entry only for a slot bound to an output identifier of the   *)
(* executed node that is tracked, not in UnchangeableSet and not in        *)
(* InstantiateSet; no step of replay, in any pass, changes the entry of a  *)
(* slot of InstantiateSet.                                                 *)
(***************************************************************************)
\* the slots run_op may write when it executes node n
StorableSlots(n) ==
    {tensors_mapping[<<n, get_output_tensors(n)[j].id>>] :
        j \in {k \in 1..Len(get_output_tensors(n)) :
                  /\ NonZeroCount(get_output_tensors(n)[k].id)
                  /\ <<n, get_output_tensors(n)[k].id>> \in DOMAIN tensors_mapping}}
    \ (unchangeable_intermediate_tensors \cup instantiate)

ChangedSlots ==
    {s \in DOMAIN tensor_registry' :
        s \notin DOMAIN tensor_registry \/ tensor_registry'[s] # tensor_registry[s]}

C12_RunOpWritesOnlyStorableOutputs ==
    [][Replaying =>
          /\ DOMAIN tensor_registry \subseteq DOMAIN tensor_registry'
          /\ ChangedSlots \cap instantiate = {}
          /\ IF pc = "run_op" /\ pos <= Len(sorted_nodes)
             THEN ChangedSlots \subseteq StorableSlots(sorted_nodes[pos])
             ELSE ChangedSlots = {}]_vars

\* in a later pass, after calls that returned all their outputs: one executed
\* node lists a slot of InstantiateSet as output, which still holds the
\* allocated buffer, and another slot holds a stored output
C12_Witness ==
    /\ pc = "run_op"
    /\ iter >= 1
    /\ well_behaved
    /\ \E n \in Range(executed) :
          /\ funcs[n].func # NoFunc
          /\ \E s \in instantiate :
                /\ BoundAt(n, get_output_tensors(n), s)
                /\ tensor_registry[s].kind = "rng"
    /\ \E s \in DOMAIN tensor_registry : tensor_registry[s].kind = "out"

(***************************************************************************)
(* C13.  Which nodes the traversal of extract_subgraph records and which   *)
(* it descends into.  The traversal looks at the children of every node it *)
(* descends into, starting with the root.                                  *)
(***************************************************************************)
\* an operator call whose name matches no skip-list string
QualifiedOperator(n) == nodes[n].type = "OPERATOR" /\ ~HasSkipName(n)

\* the traversal looks at node n
LookedAt(n) == n # Root /\ parent[n] \in descended

\* C13 as claimed: the children of a node the traversal looks at are looked at
\* in turn if and only if the node is not qualified, a node that is
\* non-qualified because of its name included, and a qualified node is recorded
C13_AsClaimed ==
    pc = "analyze_tensors" =>
        \A n \in DOMAIN nodes :
            LookedAt(n) =>
                /\ \A c \in DOMAIN nodes : parent[c] = n => (LookedAt(c) <=> ~QualifiedOperator(n))
                /\ QualifiedOperator(n) => n \in Range(sorted_nodes)

\* C13 amended: a node the traversal looks at is descended into if and only if
\* its name matches no skip-list string and it is not an operator call; it is
\* recorded if and only if it is a qualified operator; a node whose name
\* matches the skip list is neither recorded nor descended into, so that no
\* node below it is looked at
C13_DescendIffNotSkippedNotQualified ==
    pc = "analyze_tensors" =>
        /\ Root \in descended
        /\ \A n \in DOMAIN nodes \ {Root} :
              /\ LookedAt(n) <=> Reached(n)
              /\ n \in descended <=>
                    (LookedAt(n) /\ ~HasSkipName(n) /\ nodes[n].type # "OPERATOR")
              /\ n \in Range(sorted_nodes) <=> (LookedAt(n) /\ QualifiedOperator(n))

\* the traversal descended into a label node and met below it a skip-named
\* node that has a qualified operator as child
C13_Witness ==
    /\ pc = "analyze_tensors"
    /\ \E l, k, c \in DOMAIN nodes :
          /\ l \in descended /\ l # Root
          /\ parent[k] = l /\ HasSkipName(k)
          /\ parent[c] = k /\ QualifiedOperator(c)

(***************************************************************************)
(* C14.  run_op on a qualified node for which the operator lookup missed   *)
(* (the cached callable is None).                                          *)
(***************************************************************************)
LookupMissed(n) == n \in DOMAIN funcs /\ funcs[n].func = NoFunc

\* C14 as claimed: once run_op has executed a node whose lookup missed, the
\* run has failed fatally
C14_AsClaimed ==
    (\E n \in Range(executed) : LookupMissed(n)) => pc = "exit"

\* C14 amended: run_op on a node whose lookup missed returns at once: no
\* failure is raised, no working-registry entry changes, and the pass goes on
\* with the next node of the list
C14_LookupMissIsSkippedSilently ==
    [][(pc = "run_op" /\ pos <= Len(sorted_nodes) /\ LookupMissed(sorted_nodes[pos])) =>
          /\ pc' = "run_op"
          /\ fault' = fault
          /\ pos' = pos + 1
          /\ executed' = Append(executed, sorted_nodes[pos])
          /\ tensor_registry' = tensor_registry]_vars

\* all passes completed without failure although every pass executed a node
\* whose lookup missed
C14_Witness ==
    /\ pc = "done"
    /\ fault = ""
    /\ iter >= 2
    /\ \E n \in Range(executed) : LookupMissed(n)

(***************************************************************************)
(* C15.  A failure of get_inputs or of the callable ends the run at that   *)
(* node: the step that fails is a run_op step that leaves the working      *)
(* registry, the pass counter and the position as they are; a node whose   *)
(* inputs do not resolve always fails; and once failed, the process takes  *)
(* no further step (no store, no later node, no further pass).             *)
(***************************************************************************)
ReplayFaults == {"inputs_error", "run_op_exception"}

C15_FailureEndsRun ==
    [][/\ (fault = "" /\ fault' \in ReplayFaults) =>
             /\ pc = "run_op" /\ pc' = "exit"
             /\ tensor_registry' = tensor_registry
             /\ iter' = iter /\ pos' = pos /\ timed' = timed
             /\ executed' = Append(executed, sorted_nodes[pos])
       /\ (/\ pc = "run_op" /\ pos <= Len(sorted_nodes)
           /\ ~LookupMissed(sorted_nodes[pos])
           /\ ~InputsResolve(sorted_nodes[pos])) =>
             pc' = "exit" /\ fault' = "inputs_error"
       /\ fault \in ReplayFaults => vars' = vars]_vars

\* the callable of a node that has a storable output raised while a later node
\* and a further pass were still to come
C15_Witness ==
    /\ pc = "exit"
    /\ fault = "run_op_exception"
    /\ pos < Len(sorted_nodes)
    /\ iter + 1 < numWarmupIters + numIters
    /\ StorableSlots(sorted_nodes[pos]) # {}

\* get_inputs failed in the first pass
C15_InputsErrorReached == pc = "exit" /\ fault = "inputs_error" /\ iter = 0

(***************************************************************************)
(* C16.  Pairing of embedding-family forward and backward nodes by         *)
(* build_func.  A backward node j pairs with the forward node i before it  *)
(* such that the nodes strictly between them pair off among themselves.    *)
(***************************************************************************)
\* forward nodes minus backward nodes among the nodes i..j
Balance(i, j) ==
    Cardinality({m \in i..j : is_fbgemm_forward(m)})
        - Cardinality({m \in i..j : is_fbgemm_backward(m)})

Pairs(i, j) ==
    /\ i < j
    /\ is_fbgemm_forward(i)
    /\ is_fbgemm_backward(j)
    /\ Balance(i + 1, j - 1) = 0
    /\ \A m \in (i + 1)..(j - 1) : Balance(i + 1, m) >= 0

\* the nodes build_func has been called on
Built == (Root + 1)..(pos - 1)

\* the forward nodes built so far that no backward node built so far pairs with
Unpaired == {i \in Built : is_fbgemm_forward(i) /\ ~\E j \in Built : Pairs(i, j)}

C16_BackwardPairsLifo ==
    pc = "build_func" =>
        /\ \A j \in Built :
              is_fbgemm_backward(j) =>
                 \E i \in Built :
                    /\ Pairs(i, j)
                    /\ funcs[j].func = build_fbgemm_func(i).backward
                    /\ \A k \in Built : (k < j /\ is_fbgemm_forward(k) /\ k > i) =>
                          \E l \in Built : l < j /\ Pairs(k, l)
        /\ \A i \in Built : is_fbgemm_forward(i) => funcs[i].func = build_fbgemm_func(i).forward
        /\ Len(fbgemm_backward_ops) = Cardinality(Unpaired)
        /\ \A r \in 1..Cardinality(Unpaired) :
              /\ r <= Len(fbgemm_backward_ops)
              /\ fbgemm_backward_ops[r] = build_fbgemm_func(Ascending(Unpaired)[r]).backward

\* every build done: a backward node was paired with the later of two forward
\* nodes still unpaired before it, and the earlier one is still on the stack
C16_Witness ==
    /\ pc = "build_func"
    /\ pos = NumBuilds + 2
    /\ \E i, k, j \in Built :
          /\ i < k /\ Pairs(k, j)
          /\ i \in Unpaired
    /\ fbgemm_backward_ops # <<>>

(***************************************************************************)
(* C17.  Inputs that allocate_tensors has to materialize and whose         *)
(* declared type has no generator.                                         *)
(***************************************************************************)
\* allocate_tensors has been entered and left, by return or by an exception
AllocationRan ==
    \/ pc \in {"reset_registry", "benchTime", "run_op", "done"}
    \/ pc = "exit" /\ fault \in AllocateFaults \cup {"inputs_error", "run_op_exception"}

\* input i of node n is one the generic allocator materializes
NeedsBuffer(n, i) ==
    /\ NonZeroCount(get_input_tensors(n)[i].id)
    /\ ~is_fbgemm_forward(n)
    /\ \/ nodes[n].name \in {NameEmbeddingBag, NameSgd}
       \/ tensors_mapping[<<n, get_input_tensors(n)[i].id>>] \in instantiate

Untyped(n, i) == DtypeKey(get_input_tensors(n)[i].dt) \notin DOMAIN TORCH_DTYPES_RNG

\* C17 as claimed: allocate_tensors never aborts the run over a slot bound to
\* None, and every input it has to materialize whose declared type has no
\* generator has its slot bound to None in the permanent registry
C17_AsClaimed ==
    AllocationRan =>
        /\ fault # "allocate_tensors: TypeError NoneType"
        /\ \A n \in Range(sorted_nodes) : \A i \in 1..Len(get_input_tensors(n)) :
              (NeedsBuffer(n, i) /\ Untyped(n, i)) =>
                 /\ tensors_mapping[<<n, get_input_tensors(n)[i].id>>]
                        \in DOMAIN tensor_registry_permanent
                 /\ tensor_registry_permanent[tensors_mapping[<<n, get_input_tensors(n)[i].id>>]]
                        = NoneBuf

\* apart from the abort, the binding to None is as claimed
C17_NoneBoundWhereUntyped ==
    AllocationRan =>
        \A n \in Range(sorted_nodes) : \A i \in 1..Len(get_input_tensors(n)) :
            (NeedsBuffer(n, i) /\ Untyped(n, i)) =>
               /\ tensors_mapping[<<n, get_input_tensors(n)[i].id>>]
                      \in DOMAIN tensor_registry_permanent
               /\ tensor_registry_permanent[tensors_mapping[<<n, get_input_tensors(n)[i].id>>]]
                      = NoneBuf

(***************************************************************************)
(* C18.  The shape of the buffers the generic allocator makes.  A slot is  *)
(* allocated at the first input, scanning the qualified nodes in list      *)
(* order and a node's inputs in argument order, whose binding is the slot  *)
(* and that has to be materialized.                                        *)
(***************************************************************************)
\* allocate_tensors has just been left
JustAllocated == pc = "reset_registry" \/ (pc = "exit" /\ fault \in AllocateFaults)

\* <<rank, input index>> of the inputs bound to slot s that ask for a buffer
Sites(s) ==
    {x \in Ranks \X (1..3) :
        /\ x[2] <= Len(get_input_tensors(sorted_nodes[x[1]]))
        /\ LET n == sorted_nodes[x[1]]
               t == get_input_tensors(n)[x[2]].id
           IN /\ NonZeroCount(t)
              /\ tensors_mapping[<<n, t>>] = s
              /\ (nodes[n].name \in {NameEmbeddingBag, NameSgd} \/ s \in instantiate)}

AllocSite(s) ==
    CHOOSE x \in Sites(s) :
        \A y \in Sites(s) : x[1] < y[1] \/ (x[1] = y[1] /\ x[2] <= y[2])

\* the identifier of input i of node n occurs at n with one shape only
OneShapeAt(n, i) ==
    \A j \in 1..Len(Touches(n)) :
        Touches(n)[j].id = get_input_tensors(n)[i].id
            => Touches(n)[j].shape = get_input_tensors(n)[i].shape

\* a buffer made by rng(shape), with or without the offsets patch applied (a
\* buffer of generate_fbgemm_tensors carries the node it was generated for)
GenericBuffer(v) == v.kind = "rng" \/ (v.kind = "offsets" /\ v.by = 0)

\* C18 as claimed: every buffer of the generic allocator has the shape
\* recorded for its slot in replay_tensors_shapes
C18_AsClaimed ==
    JustAllocated =>
        \A s \in DOMAIN tensor_registry_permanent :
            GenericBuffer(tensor_registry_permanent[s]) =>
                tensor_registry_permanent[s].shape = replay_tensors_shapes[s]

\* C18 amended: every buffer of the generic allocator has the shape declared
\* by the input at which its slot is allocated; that is the shape recorded for
\* the slot whenever the node lists the input's identifier with one shape only
C18_BufferHasShapeOfAllocatingInput ==
    JustAllocated =>
        \A s \in DOMAIN tensor_registry_permanent :
            GenericBuffer(tensor_registry_permanent[s]) =>
                /\ Sites(s) # {}
                /\ LET n == sorted_nodes[AllocSite(s)[1]]
                       i == AllocSite(s)[2]
                   IN /\ tensor_registry_permanent[s].shape = get_input_tensors(n)[i].shape
                      /\ OneShapeAt(n, i) =>
                            tensor_registry_permanent[s].shape = replay_tensors_shapes[s]

\* allocation made one buffer whose shape is not the one recorded for its slot
\* and another whose shape is
C18_Witness ==
    /\ JustAllocated
    /\ \E s, u \in DOMAIN tensor_registry_permanent :
          /\ GenericBuffer(tensor_registry_permanent[s])
          /\ GenericBuffer(tensor_registry_permanent[u])
          /\ tensor_registry_permanent[s].shape # replay_tensors_shapes[s]
          /\ tensor_registry_permanent[u].shape = replay_tensors_shapes[u]

(***************************************************************************)
(* C19.  A failure while a node is processed in extract_subgraph.  In the  *)
(* traces of the model the embedding-family nodes are children of the      *)
(* root, which the traversal meets by ascending id; the build of a         *)
(* backward node fails when, counting it, more backward than forward nodes *)
(* have been met.                                                          *)
(***************************************************************************)
Candidates == {n \in DOMAIN nodes \ {Root} : Reached(n) /\ QualifiedOperator(n)}

Orphans ==
    {j \in Candidates :
        /\ is_fbgemm_backward(j)
        /\ Cardinality({m \in Candidates : m <= j /\ is_fbgemm_backward(m)})
              > Cardinality({m \in Candidates : m < j /\ is_fbgemm_forward(m)})}

FirstOrphan == CHOOSE j \in Orphans : \A k \in Orphans : j <= k

\* C19: if the traversal meets a backward node it cannot build, the run has
\* ended there once extract_subgraph is left: the nodes met are the ones up to
\* that node, none after it; that node has no callable; nothing has been
\* analysed, allocated or replayed; and the process takes no further step.
\* The run ends in extract_subgraph in no other case.
C19_ParseErrorAbortsAtNode ==
    /\ (pc # "extract_subgraph" /\ Orphans # {}) => fault = "graph_parse"
    /\ fault = "graph_parse" =>
          /\ Orphans # {}
          /\ pc = "exit"
          /\ sorted_nodes # <<>>
          /\ sorted_nodes[Len(sorted_nodes)] = FirstOrphan
          /\ Range(sorted_nodes) = {n \in Candidates : n <= FirstOrphan}
          /\ DOMAIN funcs = Range(sorted_nodes) \ {FirstOrphan}
          /\ replay_unique_tensor_num = 0
          /\ DOMAIN tensors_mapping = {}
          /\ instantiate = {}
          /\ DOMAIN tensor_registry_permanent = {}
          /\ DOMAIN tensor_registry = {}
          /\ iter = 0 /\ pos = 0 /\ executed = <<>>
          /\ ~ENABLED Next

\* the run ended at a backward node met with an empty stack while a qualified
\* operator with tensor inputs was still to be visited
C19_Witness ==
    /\ pc = "exit"
    /\ fault = "graph_parse"
    /\ \E n \in Candidates :
          /\ n > sorted_nodes[Len(sorted_nodes)]
          /\ get_input_tensors(n) # <<>>
          /\ n \notin DOMAIN funcs

(***************************************************************************)
(* C20.  The pass loop of benchTime.  Every run ends, by completing        *)
(* benchTime or by a fatal failure; a run that completes has made exactly  *)
(* numWarmupIters + numIters passes, each over the whole sorted list, and  *)
(* takes no further step; the passes added to the elapsed time are, at any *)
(* moment, the completed passes of index at least numWarmupIters, so the   *)
(* first numWarmupIters passes are the untimed ones.                       *)
(***************************************************************************)
TimedSoFar == IF iter > numWarmupIters THEN iter - numWarmupIters ELSE 0

PassesLeft == numWarmupIters + numIters - iter

\* an upper bound on the number of steps the run can still take: it falls with
\* every step, so every run is finite
StepsLeft ==
    CASE pc = "extract_subgraph" -> (numWarmupIters + numIters) * (Len(nodes) + 3) + 6
      [] pc = "analyze_subgraph" -> (numWarmupIters + numIters) * (Len(nodes) + 3) + 5
      [] pc = "analyze_tensors"  -> (numWarmupIters + numIters) * (Len(nodes) + 3) + 4
      [] pc = "allocate_tensors" -> (numWarmupIters + numIters) * (Len(nodes) + 3) + 3
      [] pc = "reset_registry"   -> (numWarmupIters + numIters) * (Len(nodes) + 3) + 2
      [] pc = "benchTime"        -> PassesLeft * (Len(sorted_nodes) + 3) + 1
      [] pc = "run_op"           -> PassesLeft * (Len(sorted_nodes) + 3) - pos
      [] OTHER                   -> 0

C20_PassesAndTiming ==
    /\ [](timed = TimedSoFar)
    /\ [](iter <= numWarmupIters + numIters)
    /\ [](pc = "run_op" => iter < numWarmupIters + numIters)
    /\ []((pc \in {"benchTime", "done"} /\ iter >= 1) => executed = sorted_nodes)
    /\ [](pc = "done" =>
            /\ fault = ""
            /\ iter = numWarmupIters + numIters
            /\ timed = numIters
            /\ ~ENABLED Next)
    /\ [](pc \in {"benchTime", "run_op"} => ENABLED Next)
    /\ [](StepsLeft >= 0 /\ (StepsLeft = 0 <=> pc \in {"done", "exit"}))
    /\ [][StepsLeft' < StepsLeft]_vars
    /\ [][fault' = "" => pc' # "exit"]_vars

\* a completed run of one warm-up pass and one measured pass over two nodes
C20_Witness ==
    /\ pc = "done"
    /\ numWarmupIters = 1
    /\ numIters = 1
    /\ timed = 1
    /\ Len(sorted_nodes) >= 2

(***************************************************************************)
(* C21.  analyze_subgraph returns on every finite trace tree, and its      *)
(* upward walks never run past the root: each walk made for an operator    *)
(* that is not in the qualified list ends at the nearest proper ancestor   *)
(* that is in the list, a qualified node whose top tensors are recorded,   *)
(* and on a normal return every operator the traversal visits outside the  *)
(* list has had such a walk.                                               *)
(***************************************************************************)
RECURSIVE ProperAncestors(_)
ProperAncestors(n) ==
    IF parent[n] = 0 THEN {} ELSE {parent[n]} \cup ProperAncestors(parent[n])

\* the second traversal has returned or raised
SubgraphAnalysed ==
    \/ pc = "analyze_tensors"
    \/ pc = "exit" /\ fault \in {"analyze_subgraph", "walk_past_root"}

\* the second traversal looks at n: neither n nor a node between it and the
\* root is skip-named or part of a backward computation
Surviving(n) ==
    /\ n # Root
    /\ \A m \in ({n} \cup ProperAncestors(n)) \ {Root} :
          /\ ~HasSkipName(m)
          /\ ~NameContains(nodes[m].name, "autograd::engine::evaluate_function: ")

UnlistedOperator(n) == nodes[n].type = "OPERATOR" /\ n \notin Range(sorted_nodes)

WalkEndsAtQualifiedAncestor(c, anc) ==
    /\ Surviving(c)
    /\ UnlistedOperator(c)
    /\ anc \in ProperAncestors(c)
    /\ anc \in Range(sorted_nodes)
    /\ is_qualified(anc)
    /\ anc \in DOMAIN top_tensors
    /\ \A m \in ProperAncestors(c) : anc \in ProperAncestors(m) => m \notin Range(sorted_nodes)

C21_WalkReachesQualifiedAncestor ==
    /\ fault # "walk_past_root"
    /\ pc = "analyze_subgraph" =>
          bfs_traverse(Children(Root), [add |-> {}, size |-> 0, walked |-> {}, err |-> ""]).err
              \in {"", "analyze_subgraph"}
    /\ SubgraphAnalysed =>
          /\ \A w \in walked : WalkEndsAtQualifiedAncestor(w[1], w[2])
          /\ \A w1, w2 \in walked : w1[1] = w2[1] => w1 = w2
          /\ additional_tensors \subseteq DOMAIN dependency_permanent
    /\ pc = "analyze_tensors" =>
          \A n \in DOMAIN nodes :
             Surviving(n) /\ UnlistedOperator(n) => \E w \in walked : w[1] = n

\* the traversal has returned after a walk that climbed over a label to the
\* qualified node two levels up
C21_Witness ==
    /\ pc = "analyze_tensors"
    /\ \E w \in walked :
          /\ w[2] # parent[w[1]]
          /\ nodes[parent[w[1]]].type = "LABEL"
          /\ w[2] \in DOMAIN top_tensors

\* a walk after which an output identifier was recorded as leaked
C21_LeakRecorded ==
    /\ pc = "analyze_tensors"
    /\ walked # {}
    /\ additional_tensors # {}
    /\ additional_tensors_size > 0

\* the size table has no entry for a leaked output's element type
C21_SizeLookupFailed == pc = "exit" /\ fault = "analyze_subgraph"

====
